---- MODULE Spec2Model ----
(***************************************************************************)
(* The three validators of testmu-skills as one state machine.             *)
(*                                                                         *)
(*   config : playwright-automation-skill/scripts/validate-config.py       *)
(*   caps   : shared/scripts/validate-capabilities.py                      *)
(*   skills : scripts/validate_skills.py                                   *)
(*                                                                         *)
(* A behaviour is one invocation of one script (and, through Rerun, a      *)
(* second invocation on the same unchanged input).  Text is a sequence of  *)
(* symbols: single characters where the code looks at characters ("-",     *)
(* "\n", " ", ":", quotes) and whole words where the code only searches    *)
(* for the word ("defineConfig", "@lambdatest", "name:", ...).  Indices    *)
(* handed to Find and Slice are Python's (0-based).                        *)
(***************************************************************************)
EXTENDS Integers, Sequences, FiniteSets, TLC

VARIABLES
    prog,          \* which script runs: "config", "caps" or "skills"
    argv,          \* sys.argv[1:]
    fsys,          \* the files the script can see (never written)
    pc,            \* position of the process: start, loaded, scan, validated, exited
    doc,           \* the loaded document (content / caps)
    errors,        \* the errors list
    warnings,      \* the warnings list
    out,           \* lines printed to stdout so far
    exitcode,      \* process exit status, -1 while running
    raised,        \* name of the uncaught exception that ended the process, or ""
    evaluated,     \* TRUE once a validate function has been entered in this run
    skills_found,  \* validate_skills.py: global counter
    items,         \* validate_skills.py: sorted(os.listdir(REPO_ROOT))
    idx,           \* validate_skills.py: number of items the loop has handled
    run,           \* 1 for the first invocation, 2 for the second, ...
    prev           \* stdout and exit status of the previous invocation

vars == <<prog, argv, fsys, pc, doc, errors, warnings, out, exitcode, raised,
          evaluated, skills_found, items, idx, run, prev>>

----------------------------------------------------------------------------
(* Bounds of the model *)

MaxNameLen == 4
MaxUnknown == 2
MaxRuns == 2

----------------------------------------------------------------------------
(* Python's sequence operations, on sequences of symbols *)

RECURSIVE Cat(_)
Cat(ss) == IF Len(ss) = 0 THEN <<>> ELSE Head(ss) \o Cat(Tail(ss))

SetMin(S) == CHOOSE x \in S : \A y \in S : x <= y

\* s[i:i+len(sub)] == sub, i 0-based
MatchAt(s, sub, i) ==
    /\ i >= 0
    /\ i + Len(sub) <= Len(s)
    /\ \A k \in 1..Len(sub) : s[i + k] = sub[k]

\* str.find(sub, start)
Find(s, sub, start) ==
    LET hits == {i \in start..(Len(s) - Len(sub)) : MatchAt(s, sub, i)}
    IN  IF hits = {} THEN -1 ELSE SetMin(hits)

\* sub in s
Contains(s, sub) == Find(s, sub, 0) # -1

\* s.startswith(sub)
StartsWith(s, sub) == MatchAt(s, sub, 0)

\* s[a:b]
Slice(s, a, b) == SubSeq(s, a + 1, IF b > Len(s) THEN Len(s) ELSE b)

\* the parts of s[lo..hi] (1-based, inclusive) between the separators in it:
\* the parts of the two halves, the last of the left joined to the first of the right
RECURSIVE SplitRange(_, _, _, _)
SplitRange(s, sep, lo, hi) ==
    IF lo > hi THEN <<<<>>>>
    ELSE IF lo = hi THEN (IF s[lo] = sep THEN <<<<>>, <<>>>> ELSE <<<<s[lo]>>>>)
    ELSE LET mid == (lo + hi) \div 2
             l == SplitRange(s, sep, lo, mid)
             r == SplitRange(s, sep, mid + 1, hi)
         IN  SubSeq(l, 1, Len(l) - 1) \o <<l[Len(l)] \o r[1]>> \o Tail(r)

\* s.split(sep), sep one symbol
Split(s, sep) == SplitRange(s, sep, 1, Len(s))

Line(k, m) == [k |-> k, m |-> m]

\* print(...) of each element of a list, in order
PrintAll(k, msgs) == [i \in 1..Len(msgs) |-> Line(k, msgs[i])]

----------------------------------------------------------------------------
(* validate-config.py *)

DEFAULT_CONFIG_PATH == "playwright.config.ts"

WHITESPACE == {" ", "\n"}
QUOTES == {"'", "\""}

\* first index >= i (1-based) whose symbol is not in S, or Len(s)+1
SkipWhile(s, i, S) ==
    LET stops == {j \in i..Len(s) : s[j] \notin S}
    IN  IF stops = {} THEN Len(s) + 1 ELSE SetMin(stops)

\* re.findall(r"name:\s*['\"]([^'\"]*@lambdatest)['\"]", content), scanning from i
RECURSIVE FindAllCloud(_, _)
FindAllCloud(content, i) ==
    IF i > Len(content) THEN <<>>
    ELSE IF content[i] # "name:" THEN FindAllCloud(content, i + 1)
    ELSE LET q == SkipWhile(content, i + 1, WHITESPACE)
         IN  IF q > Len(content) \/ content[q] \notin QUOTES
             THEN FindAllCloud(content, i + 1)
             ELSE LET k == SkipWhile(content, q + 1,
                                     {content[j] : j \in 1..Len(content)} \ QUOTES)
                  IN  IF k <= Len(content) /\ k - 1 > q /\ content[k - 1] = "@lambdatest"
                      THEN <<SubSeq(content, q + 1, k - 1)>> \o FindAllCloud(content, k + 1)
                      ELSE FindAllCloud(content, i + 1)

CloudMessage(proj, n) ==
    <<"Cloud project">> \o proj \o
    <<"should follow format 'browserName:version:platform@lambdatest'",
      "Got", ToString(n), "parts, expected 3">>

\* body of the loop over cloud_projects
CloudProjectRule(proj) ==
    LET parts == Split(Split(proj, "@lambdatest")[1], ":")
    IN  IF Len(parts) < 3 THEN <<CloudMessage(proj, Len(parts))>> ELSE <<>>

Absent(content, word, msg) == IF ~Contains(content, <<word>>) THEN <<msg>> ELSE <<>>

validate_config(content) ==
    LET cloud_projects == FindAllCloud(content, 1)
    IN  [errors |->
            (IF Contains(content, <<"waitForTimeout">>)
             THEN <<<<"Found 'waitForTimeout' in config">>>> ELSE <<>>)
            \o Cat([i \in 1..Len(cloud_projects) |-> CloudProjectRule(cloud_projects[i])]),
         warnings |->
            Absent(content, "defineConfig", <<"Not using defineConfig()">>)
            \o Absent(content, "testDir", <<"No testDir specified">>)
            \o Absent(content, "timeout", <<"No timeout configured">>)
            \o Absent(content, "retries", <<"No retries configured">>)
            \o Absent(content, "projects", <<"No projects defined">>)
            \o Absent(content, "trace", <<"No trace configured">>)
            \o Absent(content, "reporter", <<"No reporter configured">>)
            \o Absent(content, "baseURL", <<"No baseURL">>)
            \o Absent(content, "webServer", <<"No webServer">>)
            \o (IF /\ Contains(content, <<"@lambdatest">>)
                   /\ ~Contains(content, <<"LT_USERNAME">>)
                   /\ ~Contains(content, <<"lambdatest-setup">>)
                THEN <<<<"Cloud projects found but LT_USERNAME not referenced">>>>
                ELSE <<>>)]

\* main(): what is printed after validate() returned
ConfigReportLines(errs, warns) ==
    (IF Len(warns) > 0
     THEN <<Line("warnhead", <<ToString(Len(warns)), "warning(s):">>)>>
          \o PrintAll("warning", warns)
     ELSE <<>>)
    \o (IF Len(errs) > 0
        THEN <<Line("errhead", <<ToString(Len(errs)), "error(s):">>)>>
             \o PrintAll("error", errs)
        ELSE <<Line("summary", <<"Config is valid", ToString(Len(warns)), "warning(s)">>)>>)

\* main(): path selection, open() and read()
ConfigLoad ==
    /\ prog = "config"
    /\ pc = "start"
    /\ LET path == IF Len(argv) > 0 THEN argv[1] ELSE DEFAULT_CONFIG_PATH
       IN  IF path \in DOMAIN fsys
           THEN /\ doc' = fsys[path]
                /\ pc' = "loaded"
                /\ UNCHANGED <<out, exitcode>>
           ELSE /\ out' = Append(out, Line("fatal", <<"File not found:", path>>))
                /\ exitcode' = 2
                /\ pc' = "exited"
                /\ UNCHANGED doc
    /\ UNCHANGED <<prog, argv, fsys, errors, warnings, raised, evaluated,
                   skills_found, items, idx, run, prev>>

\* main(): errors, warnings = validate(content)
ConfigRun ==
    /\ prog = "config"
    /\ pc = "loaded"
    /\ LET r == validate_config(doc)
       IN  /\ errors' = r.errors
           /\ warnings' = r.warnings
    /\ evaluated' = TRUE
    /\ pc' = "validated"
    /\ UNCHANGED <<prog, argv, fsys, doc, out, exitcode, raised,
                   skills_found, items, idx, run, prev>>

\* main(): the two print blocks and sys.exit
ConfigReport ==
    /\ prog = "config"
    /\ pc = "validated"
    /\ out' = out \o ConfigReportLines(errors, warnings)
    /\ exitcode' = IF Len(errors) > 0 THEN 1 ELSE 0
    /\ pc' = "exited"
    /\ UNCHANGED <<prog, argv, fsys, doc, errors, warnings, raised, evaluated,
                   skills_found, items, idx, run, prev>>

(* Inputs of validate-config.py *)

KEYWORDS ==
    <<"defineConfig", "testDir", "timeout", "waitForTimeout", "retries", "projects",
      "trace", "reporter", "baseURL", "webServer", "LT_USERNAME", "lambdatest-setup">>

KeywordSet == {KEYWORDS[i] : i \in 1..Len(KEYWORDS)}

WordsText(W) ==
    LET sel == SelectSeq(KEYWORDS, LAMBDA k : k \in W)
    IN  Cat([i \in 1..Len(sel) |-> <<sel[i], "\n">>])

NameAlphabet == {"c", ":", "@lambdatest"}

Names(n) == UNION {[1..k -> NameAlphabet] : k \in 1..n}

ProjectEntry(name) == <<"name:", " ", "'">> \o name \o <<"'", "\n">>

NameLists ==
    {<<>>} \cup {<<a>> : a \in Names(MaxNameLen)}
           \cup {<<a, b>> : a \in Names(MaxNameLen), b \in Names(1)}

WordSets ==
    {W \in SUBSET KeywordSet : Cardinality(W) <= 1 \/ Cardinality(W) >= Len(KEYWORDS) - 1}

ConfigContents ==
    {WordsText(W) : W \in WordSets}
    \cup {WordsText(W) \o Cat([i \in 1..Len(nl) |-> ProjectEntry(nl[i])]) :
            W \in {{}, KeywordSet \ {"waitForTimeout"}}, nl \in NameLists}

ConfigArgvs == {<<>>, <<"e2e/playwright.config.ts">>}

InitConfig ==
    /\ prog = "config"
    /\ argv \in ConfigArgvs
    /\ \/ fsys = <<>>
       \/ \E c \in ConfigContents :
            fsys = [p \in {IF Len(argv) > 0 THEN argv[1] ELSE DEFAULT_CONFIG_PATH} |-> c]
    /\ doc = <<>>
    /\ items = <<>>

----------------------------------------------------------------------------
(* validate-capabilities.py *)

(* A decoded JSON value: t is its Python type, s its text (for a scalar or a
   list), d its items (for a dict). *)
Str(s) == [t |-> "str", s |-> s, d |-> <<>>]
Num(s) == [t |-> "int", s |-> s, d |-> <<>>]
Bool(s) == [t |-> "bool", s |-> s, d |-> <<>>]
List(s) == [t |-> "list", s |-> s, d |-> <<>>]
Dict(f) == [t |-> "dict", s |-> "", d |-> f]
None == [t |-> "NoneType", s |-> "None", d |-> <<>>]

\* bool(v)
Truthy(v) ==
    CASE v.t = "str" -> v.s # ""
      [] v.t = "int" -> v.s # "0"
      [] v.t = "bool" -> v.s = "True"
      [] v.t = "list" -> v.s # "[]"
      [] v.t = "dict" -> DOMAIN v.d # {}
      [] OTHER -> FALSE

\* hash(v) raises TypeError for these
Unhashable(v) == v.t \in {"list", "dict"}

\* dict.get(k, default)
Get(v, k, default) == IF k \in DOMAIN v.d THEN v.d[k] ELSE default

\* str.lower(), on the strings of the model
Lower(s) ==
    CASE s = "iOS" -> "ios"
      [] s = "Android" -> "android"
      [] s = "Chrome" -> "chrome"
      [] s = "Pw-Webkit" -> "pw-webkit"
      [] s = "Safari" -> "safari"
      [] OTHER -> s

VALID_BROWSERS ==
    {"Chrome", "MicrosoftEdge", "pw-chromium", "pw-firefox", "pw-webkit", "Firefox", "Safari"}

VALID_PLATFORMS ==
    {"Windows 11", "Windows 10", "macOS Sequoia", "macOS Sonoma", "macOS Ventura",
     "macOS Monterey", "macOS Big Sur", "macOS Catalina"}

VALID_MOBILE_PLATFORMS == {"android", "ios"}

VALID_LT_OPTIONS ==
    {"platform", "build", "name", "user", "accessKey", "network", "video", "console",
     "tunnel", "tunnelName", "geoLocation", "resolution", "playwrightClientVersion",
     "platformName", "deviceName", "platformVersion", "isRealMobile",
     "isPwMobileWebviewTest"}

\* the orders in which iterating a set of strings can yield its elements
\* (str hashes are salted per process, PYTHONHASHSEED)
IterationOrders(S) ==
    {o \in [1..Cardinality(S) -> S] : \A i, j \in 1..Cardinality(S) : o[i] = o[j] => i = j}

\* what a part of validate() leaves behind: the exception it raised (or ""),
\* and what it appended to errors and to warnings
Outcome(exc, errs, warns) == [exc |-> exc, errors |-> errs, warnings |-> warns]

\* lines 38-43
BrowserRule(browser) ==
    IF ~Truthy(browser) THEN Outcome("", <<<<"Missing 'browserName'">>>>, <<>>)
    ELSE IF Unhashable(browser) THEN Outcome("TypeError", <<>>, <<>>)
    ELSE IF ~(browser.t = "str" /\ browser.s \in VALID_BROWSERS)
         THEN Outcome("", <<<<"Invalid browserName", browser.s>>>>, <<>>)
         ELSE Outcome("", <<>>, <<>>)

\* lines 51-54; order is the iteration order of the set unknown
UnknownKeys(lt) == DOMAIN lt.d \ VALID_LT_OPTIONS

UnknownRule(lt, order) ==
    IF UnknownKeys(lt) # {}
    THEN <<<<"Unknown LT:Options keys (may be ignored):">> \o order>>
    ELSE <<>>

\* lines 56-62
AuthRule(lt) ==
    LET user == Get(lt, "user", Str(""))
        key == Get(lt, "accessKey", Str(""))
    IN  (IF ~Truthy(user) \/ (user.t = "str" /\ user.s = "None")
         THEN <<<<"Missing LT:Options.user">>>> ELSE <<>>)
        \o (IF ~Truthy(key) \/ (key.t = "str" /\ key.s = "None")
            THEN <<<<"Missing LT:Options.accessKey">>>> ELSE <<>>)

\* IosRule without the "browser and" guard: an absent browserName counts as a
\* browser that is not webkit
IosRule_AbsentBrowserMismatch(platform_name, browser) ==
    IF platform_name # "ios" THEN Outcome("", <<>>, <<>>)
    ELSE IF Truthy(browser) /\ browser.t # "str" THEN Outcome("AttributeError", <<>>, <<>>)
    ELSE IF ~Truthy(browser) \/ (Lower(browser.s) # "pw-webkit" /\ Lower(browser.s) # "webkit")
         THEN Outcome("", <<<<"iOS MUST use webkit/pw-webkit browser, not", browser.s>>>>, <<>>)
         ELSE Outcome("", <<>>, <<>>)

\* lines 74-75
IosRule(platform_name, browser) ==
    IF platform_name # "ios" \/ ~Truthy(browser) THEN Outcome("", <<>>, <<>>)
    ELSE IF browser.t # "str" THEN Outcome("AttributeError", <<>>, <<>>)
    ELSE IF Lower(browser.s) # "pw-webkit" /\ Lower(browser.s) # "webkit"
         THEN Outcome("", <<<<"iOS MUST use webkit/pw-webkit browser, not", browser.s>>>>, <<>>)
         ELSE Outcome("", <<>>, <<>>)

\* lines 67-75
MobileRules(lt, platform_name, browser) ==
    LET ios == IosRule(platform_name, browser)
    IN  Outcome(ios.exc,
                (IF ~Truthy(Get(lt, "deviceName", None))
                 THEN <<<<"Mobile test requires 'deviceName'">>>> ELSE <<>>)
                \o (IF ~Truthy(Get(lt, "platformVersion", None))
                    THEN <<<<"Mobile test requires 'platformVersion'">>>> ELSE <<>>)
                \o ios.errors,
                IF ~Truthy(Get(lt, "isRealMobile", None))
                THEN <<<<"isRealMobile not set">>>> ELSE <<>>)

\* lines 77-82
DesktopRules(lt) ==
    LET platform == Get(lt, "platform", None)
    IN  IF ~Truthy(platform)
        THEN Outcome("", <<<<"Desktop test requires LT:Options.platform">>>>, <<>>)
        ELSE IF Unhashable(platform) THEN Outcome("TypeError", <<>>, <<>>)
        ELSE IF ~(platform.t = "str" /\ platform.s \in VALID_PLATFORMS)
             THEN Outcome("", <<<<"Invalid platform", platform.s>>>>, <<>>)
             ELSE Outcome("", <<>>, <<>>)

\* lines 84-90
Recommendations(lt) ==
    (IF ~Truthy(Get(lt, "build", None)) THEN <<<<"Consider adding 'build'">>>> ELSE <<>>)
    \o (IF ~Truthy(Get(lt, "video", None)) THEN <<<<"Consider adding 'video: true'">>>> ELSE <<>>)
    \o (IF ~Truthy(Get(lt, "network", None)) THEN <<<<"Consider adding 'network: true'">>>> ELSE <<>>)

\* validate(caps): exc is the exception that escapes it (or ""), errors the
\* list errors as the function left it, printed what its final loop printed
\* (nothing when it returns early or raises)
validate_capabilities(caps, order) ==
    IF caps.t # "dict"
    THEN [exc |-> "AttributeError", errors |-> <<>>, printed |-> <<>>]
    ELSE
    LET browser == Get(caps, "browserName", None)
        b == BrowserRule(browser)
        lt == Get(caps, "LT:Options", Dict(<<>>))
    IN  IF b.exc # "" THEN [exc |-> b.exc, errors |-> b.errors, printed |-> <<>>]
        ELSE IF ~Truthy(lt)
        THEN [exc |-> "", errors |-> b.errors \o <<<<"Missing 'LT:Options' object">>>>,
              printed |-> <<>>]
        ELSE IF lt.t # "dict"
        THEN [exc |-> "AttributeError", errors |-> b.errors, printed |-> <<>>]
        ELSE
        LET pn == Get(lt, "platformName", Str(""))
        IN  IF pn.t # "str"
            THEN [exc |-> "AttributeError", errors |-> b.errors \o AuthRule(lt),
                  printed |-> <<>>]
            ELSE
            LET platform_name == Lower(pn.s)
                m == IF platform_name \in VALID_MOBILE_PLATFORMS
                     THEN MobileRules(lt, platform_name, browser)
                     ELSE DesktopRules(lt)
            IN  [exc |-> m.exc,
                 errors |-> b.errors \o AuthRule(lt) \o m.errors,
                 printed |-> IF m.exc # "" THEN <<>>
                             ELSE UnknownRule(lt, order) \o m.warnings
                                  \o Recommendations(lt)]

\* json.loads / json.load: text is [wellformed, value]
json_loads(text) ==
    IF text.wellformed THEN [exc |-> "", value |-> text.value]
    ELSE [exc |-> "JSONDecodeError", value |-> None]

\* main(): lines 105-110, the body of the try
ReadCaps(args, files) ==
    IF args[1] = "--inline"
    THEN IF Len(args) < 2 THEN [exc |-> "IndexError", value |-> None]
         ELSE json_loads(args[2])
    ELSE IF args[1] \notin DOMAIN files
         THEN [exc |-> "FileNotFoundError", value |-> None]
         ELSE json_loads(files[args[1]])

\* CaughtOnLoad with IndexError forgotten
CaughtOnLoad_NoIndexError == {"JSONDecodeError", "FileNotFoundError"}

\* main(): line 111, the exceptions the except clause names
CaughtOnLoad == {"JSONDecodeError", "FileNotFoundError", "IndexError"}

\* main(): lines 100-113
CapsLoad ==
    /\ prog = "caps"
    /\ pc = "start"
    /\ IF Len(argv) < 1
       THEN /\ out' = out \o <<Line("usage", <<"Usage: python validate-capabilities.py <file.json>">>),
                               Line("usage", <<"python validate-capabilities.py --inline '<json>'">>)>>
            /\ exitcode' = 2
            /\ pc' = "exited"
            /\ UNCHANGED <<doc, raised>>
       ELSE LET r == ReadCaps(argv, fsys)
            IN  IF r.exc = ""
                THEN /\ doc' = r.value
                     /\ pc' = "loaded"
                     /\ UNCHANGED <<out, exitcode, raised>>
                ELSE IF r.exc \in CaughtOnLoad
                THEN /\ out' = Append(out, Line("fatal", <<"Failed to parse input:", r.exc>>))
                     /\ exitcode' = 2
                     /\ pc' = "exited"
                     /\ UNCHANGED <<doc, raised>>
                ELSE /\ raised' = r.exc
                     /\ exitcode' = 1
                     /\ pc' = "exited"
                     /\ UNCHANGED <<doc, out>>
    /\ UNCHANGED <<prog, argv, fsys, errors, warnings, evaluated,
                   skills_found, items, idx, run, prev>>

\* main(): errors = validate(caps); an exception that escapes validate ends the
\* process with a traceback and status 1 (errors is then the list as validate
\* left it: main never prints it)
CapsRun ==
    /\ prog = "caps"
    /\ pc = "loaded"
    /\ \E order \in IterationOrders(IF doc.t = "dict" /\ Get(doc, "LT:Options", None).t = "dict"
                                    THEN UnknownKeys(Get(doc, "LT:Options", None)) ELSE {}) :
         LET r == validate_capabilities(doc, order)
         IN  IF r.exc = ""
             THEN /\ errors' = r.errors
                  /\ warnings' = r.printed
                  /\ out' = out \o PrintAll("warning", r.printed)
                  /\ pc' = "validated"
                  /\ UNCHANGED <<exitcode, raised>>
             ELSE /\ raised' = r.exc
                  /\ errors' = r.errors
                  /\ exitcode' = 1
                  /\ pc' = "exited"
                  /\ UNCHANGED <<warnings, out>>
    /\ evaluated' = TRUE
    /\ UNCHANGED <<prog, argv, fsys, doc, skills_found, items, idx, run, prev>>

\* main(): lines 117-124, what is printed
CapsReportLines(errs) ==
    IF Len(errs) > 0
    THEN <<Line("errhead", <<ToString(Len(errs)), "validation error(s):">>)>>
         \o PrintAll("error", errs)
    ELSE <<Line("summary", <<"Capabilities are valid">>)>>

\* main(): lines 117-124
CapsReport ==
    /\ prog = "caps"
    /\ pc = "validated"
    /\ out' = out \o CapsReportLines(errors)
    /\ exitcode' = IF Len(errors) > 0 THEN 1 ELSE 0
    /\ pc' = "exited"
    /\ UNCHANGED <<prog, argv, fsys, doc, errors, warnings, raised, evaluated,
                   skills_found, items, idx, run, prev>>

(* Inputs of validate-capabilities.py *)

Missing == [t |-> "missing", s |-> "", d |-> <<>>]

\* the dict holding the keys of f whose value is not Missing
MkDict(f) == Dict([k \in {x \in DOMAIN f : f[x].t # "missing"} |-> f[k]])

UnknownPool == <<"foo", "bar", "baz", "qux">>

UnknownSets == SUBSET {UnknownPool[i] : i \in 1..MaxUnknown}

BrowserValues ==
    {Missing, Str(""), Str("Chrome"), Str("pw-webkit"), Str("webkit"), Str("Pw-Webkit"),
     Num("5"), List("['x']")}

MobileOptions ==
    {MkDict([platformName |-> pn, deviceName |-> dn, platformVersion |-> pv,
             isRealMobile |-> rm, user |-> a[1], accessKey |-> a[2]]) :
        pn \in {Str("ios"), Str("iOS"), Str("android")},
        dn \in {Missing, Str("iPhone 16")},
        pv \in {Missing, Str("18")},
        rm \in {Missing, Bool("True")},
        a \in {<<Str("u"), Str("k")>>, <<Missing, Str("None")>>}}

DesktopOptions ==
    {MkDict([platformName |-> pn, platform |-> pf, user |-> u, accessKey |-> k,
             build |-> r, video |-> r, network |-> r]
            @@ [x \in unk |-> Num("1")]) :
        pn \in {Missing, Num("5")},
        pf \in {Missing, Str("Windows 11"), Str("Solaris"), List("['x']")},
        u \in {Missing, Str("u"), Str("None")},
        k \in {Missing, Str("k")},
        r \in {Missing, Bool("True")},
        unk \in UnknownSets}

CapsValues ==
    {List("[]"), Str("caps"), None, Num("0")}
    \cup {MkDict(("browserName" :> b) @@ ("LT:Options" :> lt)) :
            b \in {Missing, Str("Chrome")},
            lt \in {Missing, Dict(<<>>), Str("abc"), List("[]"), Num("1")}}
    \cup {MkDict(("browserName" :> b) @@ ("LT:Options" :> lt)) :
            b \in BrowserValues, lt \in MobileOptions}
    \cup {MkDict(("browserName" :> b) @@ ("LT:Options" :> lt)) :
            b \in {Missing, Str("Chrome")}, lt \in DesktopOptions}

CapsTexts ==
    {[wellformed |-> FALSE, value |-> None]}
    \cup {[wellformed |-> TRUE, value |-> v] : v \in CapsValues}

CAPS_PATH == "capabilities.json"

InitCaps ==
    /\ prog = "caps"
    /\ \/ /\ argv \in {<<>>, <<"--inline">>, <<CAPS_PATH>>}
          /\ fsys = <<>>
       \/ \E text \in CapsTexts :
            \/ argv = <<"--inline", text>> /\ fsys = <<>>
            \/ argv = <<CAPS_PATH>> /\ fsys = [p \in {CAPS_PATH} |-> text]
    /\ doc = <<>>
    /\ items = <<>>

----------------------------------------------------------------------------
(* validate_skills.py *)

MAX_SKILL_LINES == 500

\* directory and file names are sequences of symbols too
SKIP_DIRS == {<<"evals">>, <<"shared">>, <<".", "git">>, <<"scripts">>, <<"docs">>,
              <<"__pycache__">>}

VALID_CATEGORIES ==
    {"accessibility", "api-testing", "bdd-testing", "cloud-testing", "devops",
     "e2e-testing", "mobile-testing", "performance-testing", "security-testing",
     "unit-testing", "visual-testing"}

\* the names of the model in the order of Python's string comparison
NAME_ORDER ==
    <<<<".", "github">>, <<"README.md">>, <<"api-skill">>, <<"cypress-skill">>,
      <<"docs">>, <<"jest-skill">>>>

\* sorted(names)
Sorted(names) == SelectSeq(NAME_ORDER, LAMBDA n : n \in names)

\* the positions (1-based) in fm where a line starts with the symbol key
LineStarts(fm, key) ==
    {i \in 1..Len(fm) : fm[i] = key /\ (i = 1 \/ fm[i - 1] = "\n")}

\* re.search(r'^<key>', fm, re.MULTILINE) is not None
SearchKey(fm, key) == LineStarts(fm, key) # {}

\* where (.+) starts when r'^category:\s*(.+)' is matched with "category:" at p:
\* \s* is greedy and gives back one symbol at a time, "." is any symbol but "\n";
\* 0 when there is no match at p
GroupStart(fm, p) ==
    LET w == SkipWhile(fm, p + 1, WHITESPACE)
        back == {j \in (p + 1)..Len(fm) : fm[j] # "\n"}
    IN  IF w <= Len(fm) THEN w
        ELSE IF back = {} THEN 0
        ELSE CHOOSE j \in back : \A x \in back : x <= j

\* s.strip()
Strip(s) ==
    LET keep == {i \in 1..Len(s) : s[i] \notin WHITESPACE}
    IN  IF keep = {} THEN <<>>
        ELSE SubSeq(s, SetMin(keep), CHOOSE j \in keep : \A x \in keep : x <= j)

\* re.search(r'^category:\s*(.+)', fm, re.MULTILINE): [found, group]
SearchCategory(fm) ==
    LET ps == {p \in LineStarts(fm, "category:") : GroupStart(fm, p) # 0}
    IN  IF ps = {} THEN [found |-> FALSE, group |-> <<>>]
        ELSE LET g == GroupStart(fm, SetMin(ps))
                 eol == SkipWhile(fm, g, {fm[j] : j \in 1..Len(fm)} \ {"\n"})
             IN  [found |-> TRUE, group |-> SubSeq(fm, g, eol - 1)]

\* cat.group(1).strip() not in VALID_CATEGORIES
UnknownCategory(value) == ~(Len(value) = 1 /\ value[1] \in VALID_CATEGORIES)

\* lines 39-50: the rules on the frontmatter block
FieldRules(skill_dir, fm) ==
    LET cat == SearchCategory(fm)
    IN  [errors |->
            (IF ~SearchKey(fm, "name:")
             THEN <<skill_dir \o <<"Missing 'name' in frontmatter">>>> ELSE <<>>)
            \o (IF ~SearchKey(fm, "description:")
                THEN <<skill_dir \o <<"Missing 'description' in frontmatter">>>> ELSE <<>>),
         warnings |->
            (IF ~SearchKey(fm, "languages:")
             THEN <<skill_dir \o <<"Missing 'languages' in frontmatter">>>> ELSE <<>>)
            \o (IF ~SearchKey(fm, "category:")
                THEN <<skill_dir \o <<"Missing 'category' in frontmatter">>>>
                ELSE IF cat.found /\ UnknownCategory(Strip(cat.group))
                     THEN <<skill_dir \o <<"Unknown category">> \o Strip(cat.group)>>
                     ELSE <<>>)]

\* lines 30-33: the two searches for the closing delimiter
ClosingDelimiter(content) ==
    LET a == Find(content, <<"\n", "-", "-", "-", "\n">>, 3)
    IN  IF a # -1 THEN a ELSE Find(content, <<"\n", "-", "-", "-">>, 3)

\* validate_frontmatter without its early returns: the field rules run on the
\* whole manifest when a delimiter is missing
validate_frontmatter_NoEarlyReturn(skill_dir, content) ==
    IF ~StartsWith(content, <<"-", "-", "-", "\n">>)
    THEN [errors |-> <<skill_dir \o <<"Missing opening --- in frontmatter">>>>
                     \o FieldRules(skill_dir, content).errors,
          warnings |-> FieldRules(skill_dir, content).warnings]
    ELSE LET fm_end == ClosingDelimiter(content)
         IN  IF fm_end = -1
             THEN [errors |-> <<skill_dir \o <<"Missing closing --- in frontmatter">>>>
                              \o FieldRules(skill_dir, content).errors,
                   warnings |-> FieldRules(skill_dir, content).warnings]
             ELSE FieldRules(skill_dir, Slice(content, 4, fm_end))

\* what validate_frontmatter appends to errors and to warnings
validate_frontmatter(skill_dir, content) ==
    IF ~StartsWith(content, <<"-", "-", "-", "\n">>)
    THEN [errors |-> <<skill_dir \o <<"Missing opening --- in frontmatter">>>>,
          warnings |-> <<>>]
    ELSE LET fm_end == ClosingDelimiter(content)
         IN  IF fm_end = -1
             THEN [errors |-> <<skill_dir \o <<"Missing closing --- in frontmatter">>>>,
                   warnings |-> <<>>]
             ELSE FieldRules(skill_dir, Slice(content, 4, fm_end))

\* lines 70-73
LineBudgetRule(skill_dir, content) ==
    LET lines == Len(Split(content, "\n"))
    IN  IF lines > MAX_SKILL_LINES
        THEN <<skill_dir \o <<"SKILL.md is", ToString(lines), "lines (max",
                              ToString(MAX_SKILL_LINES)>>>>
        ELSE <<>>

\* lines 78-89
ReferenceRules(skill_dir, entry) ==
    (IF entry.reference = "none" THEN <<skill_dir \o <<"No reference/ directory">>>>
     ELSE IF entry.reference # "playbook"
          THEN <<skill_dir \o <<"No reference/playbook.md">>>> ELSE <<>>)
    \o (IF /\ ~Contains(entry.skill_md, <<"reference/">>)
           /\ ~Contains(entry.skill_md, <<"playbook.md">>)
        THEN <<skill_dir \o <<"SKILL.md doesn't reference playbook.md">>>> ELSE <<>>)

\* what validate_skill appends to errors and to warnings, and adds to skills_found
validate_skill(skill_dir, entry) ==
    IF ~entry.has_md
    THEN [errors |-> <<skill_dir \o <<"Missing SKILL.md">>>>, warnings |-> <<>>, found |-> 0]
    ELSE LET f == validate_frontmatter(skill_dir, entry.skill_md)
         IN  [errors |-> LineBudgetRule(skill_dir, entry.skill_md) \o f.errors,
              warnings |-> f.warnings \o ReferenceRules(skill_dir, entry),
              found |-> 1]

\* main(), line 99 and line 100: the items of the listing that are validated
IsCandidate(item, entry) ==
    entry.isdir /\ item \notin SKIP_DIRS /\ ~StartsWith(item, <<".">>)

Scanned(item, entry) == IsCandidate(item, entry) /\ entry.has_md

\* main(), lines 93-97: the banner and the sorted listing
SkillsStart ==
    /\ prog = "skills"
    /\ pc = "start"
    /\ out' = out \o <<Line("banner", <<"====">>),
                       Line("banner", <<"TestMu Skills Validation">>),
                       Line("banner", <<"====">>)>>
    /\ items' = Sorted(DOMAIN fsys)
    /\ idx' = 0
    /\ pc' = "scan"
    /\ UNCHANGED <<prog, argv, fsys, doc, errors, warnings, exitcode, raised, evaluated,
                   skills_found, run, prev>>

\* main(), lines 97-101: one iteration of the loop
SkillsScan ==
    /\ prog = "skills"
    /\ pc = "scan"
    /\ idx < Len(items)
    /\ LET item == items[idx + 1]
           r == validate_skill(item, fsys[item])
       IN  IF Scanned(item, fsys[item])
           THEN /\ errors' = errors \o r.errors
                /\ warnings' = warnings \o r.warnings
                /\ skills_found' = skills_found + r.found
                /\ evaluated' = TRUE
           ELSE UNCHANGED <<errors, warnings, skills_found, evaluated>>
    /\ idx' = idx + 1
    /\ UNCHANGED <<prog, argv, fsys, pc, doc, out, exitcode, raised, items, run, prev>>

\* SkillsReportLines with the two blocks swapped
SkillsReportLines_WarningsFirst(errs, warns, found) ==
    <<Line("count", <<"Skills found:", ToString(found)>>),
      Line("count", <<"Errors:", ToString(Len(errs))>>),
      Line("count", <<"Warnings:", ToString(Len(warns))>>)>>
    \o (IF Len(warns) > 0
        THEN <<Line("warnhead", <<"WARNINGS:">>)>> \o PrintAll("warning", warns) ELSE <<>>)
    \o (IF Len(errs) > 0
        THEN <<Line("errhead", <<"ERRORS:">>)>> \o PrintAll("error", errs) ELSE <<>>)
    \o (IF Len(errs) = 0
        THEN <<Line("summary", <<"All skills pass validation!">>)>>
        ELSE <<Line("summary", <<"Validation failed!">>)>>)

\* main(), lines 104-123, what is printed
SkillsReportLines(errs, warns, found) ==
    <<Line("count", <<"Skills found:", ToString(found)>>),
      Line("count", <<"Errors:", ToString(Len(errs))>>),
      Line("count", <<"Warnings:", ToString(Len(warns))>>)>>
    \o (IF Len(errs) > 0
        THEN <<Line("errhead", <<"ERRORS:">>)>> \o PrintAll("error", errs) ELSE <<>>)
    \o (IF Len(warns) > 0
        THEN <<Line("warnhead", <<"WARNINGS:">>)>> \o PrintAll("warning", warns) ELSE <<>>)
    \o (IF Len(errs) = 0
        THEN <<Line("summary", <<"All skills pass validation!">>)>>
        ELSE <<Line("summary", <<"Validation failed!">>)>>)

\* main(), lines 104-123, and sys.exit(main())
SkillsReport ==
    /\ prog = "skills"
    /\ pc = "scan"
    /\ idx = Len(items)
    /\ out' = out \o SkillsReportLines(errors, warnings, skills_found)
    /\ exitcode' = IF Len(errors) = 0 THEN 0 ELSE 1
    /\ pc' = "exited"
    /\ UNCHANGED <<prog, argv, fsys, doc, errors, warnings, raised, evaluated,
                   skills_found, items, idx, run, prev>>

(* Inputs of validate_skills.py *)

DASHES == <<"-", "-", "-">>

FieldLine(key, value) == <<key, " ", value, "\n">>

FrontmatterFields ==
    {n \o d \o c \o l :
        n \in {<<>>, FieldLine("name:", "x")},
        d \in {<<>>, FieldLine("description:", "x")},
        c \in {<<>>, FieldLine("category:", "e2e-testing"), FieldLine("category:", "x"),
               <<"category:", "\n">>},
        l \in {<<>>, FieldLine("languages:", "x")}}

GoodHead ==
    DASHES \o <<"\n">> \o FieldLine("name:", "x") \o FieldLine("description:", "x")
    \o FieldLine("category:", "e2e-testing") \o FieldLine("languages:", "x")
    \o DASHES \o <<"\n">>

FrontmatterDocs ==
    {o \o f \o c :
        o \in {DASHES \o <<"\n">>, <<"x", "\n">>},
        f \in FrontmatterFields,
        c \in {DASHES \o <<"\n", "x", "\n">>, DASHES, <<>>}}

BodyDocs ==
    {GoodHead \o b :
        b \in {<<>>, <<"x">>, <<"reference/", "playbook.md", "\n">>, <<"playbook.md">>}}

\* a manifest of n lines that starts with head; its last line ends with "\n" iff nl
LongDoc(head, n, nl) ==
    head \o [i \in 1..(n - Len(Split(head, "\n"))) |-> "\n"]
    \o (IF nl THEN <<"\n">> ELSE <<"x">>)

LongDocs ==
    {LongDoc(h, n, nl) :
        h \in {GoodHead, <<"x", "\n">>},
        n \in (MAX_SKILL_LINES - 1)..(MAX_SKILL_LINES + 1),
        nl \in BOOLEAN}

Manifests == FrontmatterDocs \cup BodyDocs \cup LongDocs

SkillDir(md, ref) == [isdir |-> TRUE, has_md |-> TRUE, skill_md |-> md, reference |-> ref]

EmptyDir(ref) == [isdir |-> TRUE, has_md |-> FALSE, skill_md |-> <<>>, reference |-> ref]

PlainFile == [isdir |-> FALSE, has_md |-> FALSE, skill_md |-> <<>>, reference |-> "none"]

References == {"none", "dir", "playbook"}

Entries ==
    {SkillDir(md, ref) : md \in Manifests, ref \in References}
    \cup {EmptyDir(ref) : ref \in References}
    \cup {PlainFile}

Neighbours ==
    {<<>>,
     <<".", "github">> :> EmptyDir("none"),
     <<".", "github">> :> SkillDir(<<"x">>, "none"),
     <<"docs">> :> SkillDir(<<"x">>, "none"),
     <<"README.md">> :> PlainFile,
     <<"jest-skill">> :> EmptyDir("none"),
     <<"jest-skill">> :> SkillDir(<<"x">>, "dir"),
     <<"api-skill">> :> SkillDir(GoodHead \o <<"playbook.md">>, "playbook")}

Repos == {<<>>} \cup {(<<"cypress-skill">> :> e) @@ n : e \in Entries, n \in Neighbours}

InitSkills ==
    /\ prog = "skills"
    /\ argv = <<>>
    /\ fsys \in Repos
    /\ doc = <<>>
    /\ items = <<>>

----------------------------------------------------------------------------
(* One more invocation on the same input: a fresh process, same argv, same files *)

Rerun ==
    /\ pc = "exited"
    /\ run < MaxRuns
    /\ run' = run + 1
    /\ prev' = [out |-> out, exitcode |-> exitcode, raised |-> raised]
    /\ pc' = "start"
    /\ doc' = <<>>
    /\ errors' = <<>>
    /\ warnings' = <<>>
    /\ out' = <<>>
    /\ exitcode' = -1
    /\ raised' = ""
    /\ evaluated' = FALSE
    /\ skills_found' = 0
    /\ items' = <<>>
    /\ idx' = 0
    /\ UNCHANGED <<prog, argv, fsys>>

Init ==
    /\ (InitConfig \/ InitCaps \/ InitSkills)
    /\ pc = "start"
    /\ errors = <<>>
    /\ warnings = <<>>
    /\ out = <<>>
    /\ exitcode = -1
    /\ raised = ""
    /\ evaluated = FALSE
    /\ skills_found = 0
    /\ idx = 0
    /\ run = 1
    /\ prev = [out |-> <<>>, exitcode |-> -1, raised |-> ""]

Next ==
    \/ ConfigLoad
    \/ ConfigRun
    \/ ConfigReport
    \/ CapsLoad
    \/ CapsRun
    \/ CapsReport
    \/ SkillsStart
    \/ SkillsScan
    \/ SkillsReport
    \/ Rerun

Spec == Init /\ [][Next]_vars

----------------------------------------------------------------------------
(* Properties *)

LastKind == IF Len(out) = 0 THEN "" ELSE out[Len(out)].k

\* some line of a kind in A is printed before some line of a kind in B
PrintedBefore(A, B) ==
    \E i, j \in 1..Len(out) : i < j /\ out[i].k \in A /\ out[j].k \in B

ErrorBlock == {"errhead", "error"}
WarningBlock == {"warnhead", "warning"}

\* the run went through the reporter
Reported == pc = "exited" /\ exitcode \in {0, 1} /\ raised = ""

\* the input was loaded: validate was entered (the skill scan has no load step)
Loaded == prog = "skills" \/ evaluated

\* the findings of list that are about directory d
FindingsFor(list, d) == {i \in 1..Len(list) : StartsWith(list[i], d)}

HasFinding(list, d, text) == \E i \in 1..Len(list) : StartsWith(list[i], d \o <<text>>)

\* validate-capabilities.py: an error whose message starts with text
HasError(text) == \E i \in 1..Len(errors) : errors[i][1] = text

(* C1: in each validator, when the input loaded, the exit code is 0 iff no
   error-severity finding was produced and 1 iff at least one was; warnings
   never change it. *)
C1_ExitCodeIffErrors ==
    (pc = "exited" /\ Loaded) =>
        /\ exitcode = 0 <=> Len(errors) = 0
        /\ exitcode = 1 <=> Len(errors) > 0

\* the errors that name cloud project p
CloudErrorsNaming(p) ==
    {i \in 1..Len(errors) : \E n \in 0..(Len(p) + 1) : errors[i] = CloudMessage(p, n)}

(* C2: every quoted project name ending in '@lambdatest' gets exactly one error
   naming it iff the colon-delimited prefix before the suffix does not have
   exactly 3 parts, and no finding when it has exactly 3 (a name quoted k times
   gets k such errors, or none). *)
C2_CloudNameExactlyThreeParts ==
    (prog = "config" /\ pc = "validated") =>
        LET names == FindAllCloud(doc, 1)
        IN  \A i \in 1..Len(names) :
                LET p == names[i]
                    prefix == Split(p, "@lambdatest")[1]
                    times == Cardinality({j \in 1..Len(names) : names[j] = p})
                IN  Cardinality(CloudErrorsNaming(p))
                        = IF Len(Split(prefix, ":")) # 3 THEN times ELSE 0

(* C3: after the scan, every non-skipped directory without a manifest has
   exactly one error (Missing SKILL.md) and no other finding, and skills_found
   counts exactly the non-skipped directories whose manifest exists. *)
C3_MissingManifestOneError ==
    (prog = "skills" /\ pc = "exited") =>
        /\ \A d \in DOMAIN fsys :
              (IsCandidate(d, fsys[d]) /\ ~fsys[d].has_md) =>
                  /\ Cardinality(FindingsFor(errors, d)) = 1
                  /\ HasFinding(errors, d, "Missing SKILL.md")
                  /\ FindingsFor(warnings, d) = {}
        /\ skills_found
             = Cardinality({d \in DOMAIN fsys : IsCandidate(d, fsys[d]) /\ fsys[d].has_md})

(* C4 as stated: in all three validators no line of the errors block is printed
   before a line of the warnings block, nothing is printed after the summary
   line, and a run that reports ends with it (for validate-config.py and
   validate-capabilities.py the failure summary is read as the error-count
   line that opens the errors block, so only their success runs are asked to
   end with a summary line). *)
C4_WarningsBlockFirstEverywhere ==
    /\ ~PrintedBefore(ErrorBlock, WarningBlock)
    /\ ~PrintedBefore({"summary"}, {"summary", "errhead", "error", "warnhead", "warning"})
    /\ (Reported /\ (prog = "skills" \/ exitcode = 0)) => LastKind = "summary"

(* C4 as amended: validate-config.py and validate-capabilities.py print every
   warning before the errors block, and end with the success summary when
   there is no error and with the last error bullet (no summary line) when
   there is one; validate_skills.py prints the errors block before the warnings
   block and always ends with the summary line; nothing is ever printed after
   a summary line. *)
C4_BlockOrderPerValidator ==
    /\ prog \in {"config", "caps"} => ~PrintedBefore(ErrorBlock, WarningBlock)
    /\ prog = "skills" => ~PrintedBefore(WarningBlock, ErrorBlock)
    /\ ~PrintedBefore({"summary"}, {"summary", "errhead", "error", "warnhead", "warning"})
    /\ (Reported /\ (prog = "skills" \/ exitcode = 0)) => LastKind = "summary"
    /\ (Reported /\ prog # "skills" /\ exitcode = 1) =>
            /\ LastKind = "error"
            /\ \A i \in 1..Len(out) : out[i].k # "summary"

\* C4's case: a skill scan that printed an error and, after it, a warning
C4_Witness ==
    /\ prog = "skills"
    /\ pc = "exited"
    /\ PrintedBefore({"error"}, {"warning"})
    /\ LastKind = "summary"

\* the loaded descriptor has an options object whose platformName is 'ios'
IosDescriptor ==
    /\ prog = "caps"
    /\ evaluated
    /\ doc.t = "dict"
    /\ Get(doc, "LT:Options", None).t = "dict"
    /\ Get(Get(doc, "LT:Options", None), "platformName", None).t = "str"
    /\ Get(Get(doc, "LT:Options", None), "platformName", None).s = "ios"

WebkitFamily(b) == b.t = "str" /\ Lower(b.s) \in {"pw-webkit", "webkit"}

MISMATCH == "iOS MUST use webkit/pw-webkit browser, not"
NO_DEVICE == "Mobile test requires 'deviceName'"
NO_VERSION == "Mobile test requires 'platformVersion'"

(* C5 as stated: for an 'ios' descriptor the mismatch error is emitted iff
   browserName is not a webkit-family value, an absent browserName included,
   independently of the missing-device-name and missing-platform-version
   errors. *)
C5_MismatchIffNotWebkit ==
    IosDescriptor =>
        LET lt == Get(doc, "LT:Options", None)
        IN  /\ HasError(MISMATCH) <=> ~WebkitFamily(Get(doc, "browserName", None))
            /\ HasError(NO_DEVICE) <=> ~Truthy(Get(lt, "deviceName", None))
            /\ HasError(NO_VERSION) <=> ~Truthy(Get(lt, "platformVersion", None))

(* C5 as amended: for an 'ios' descriptor, validate raises when browserName is
   a truthy value that is not a string; otherwise it returns, and the mismatch
   error is emitted iff browserName is present (truthy) and is not, ignoring
   case, webkit or pw-webkit - an absent or empty browserName gets no mismatch
   error - independently of the missing-device-name error (emitted iff
   deviceName is absent) and the missing-platform-version error (emitted iff
   platformVersion is absent). *)
C5_MismatchIffPresentAndNotWebkit ==
    IosDescriptor =>
        LET lt == Get(doc, "LT:Options", None)
            b == Get(doc, "browserName", None)
        IN  IF Truthy(b) /\ b.t # "str"
            THEN raised # "" /\ pc = "exited" /\ exitcode = 1 /\ ~HasError(MISMATCH)
            ELSE /\ raised = ""
                 /\ HasError(MISMATCH) <=> (Truthy(b) /\ ~WebkitFamily(b))
                 /\ HasError(NO_DEVICE) <=> ~Truthy(Get(lt, "deviceName", None))
                 /\ HasError(NO_VERSION) <=> ~Truthy(Get(lt, "platformVersion", None))

\* C5's case: an 'ios' descriptor without browserName, deviceName and
\* platformVersion was validated: two mobile errors and no mismatch error
C5_Witness ==
    /\ IosDescriptor
    /\ pc = "validated"
    /\ "browserName" \notin DOMAIN doc.d
    /\ HasError("Missing 'browserName'")
    /\ HasError(NO_DEVICE)
    /\ HasError(NO_VERSION)
    /\ ~HasError(MISMATCH)

(* C6: for every input that parses as JSON, validate returns without raising
   and the run ends through the reporter with exit code 0 or 1. *)
C6_EvaluationTotal ==
    (prog = "caps" /\ evaluated) =>
        /\ raised = ""
        /\ pc = "exited" => (exitcode \in {0, 1} /\ LastKind \in {"summary", "error"})

\* the input errors C7 lists
InputError ==
    \/ /\ prog = "caps"
       /\ \/ Len(argv) = 0
          \/ /\ argv[1] = "--inline"
             /\ (Len(argv) < 2 \/ ~argv[2].wellformed)
          \/ /\ argv[1] # "--inline"
             /\ (argv[1] \notin DOMAIN fsys \/ ~fsys[argv[1]].wellformed)
    \/ /\ prog = "config"
       /\ (IF Len(argv) > 0 THEN argv[1] ELSE DEFAULT_CONFIG_PATH) \notin DOMAIN fsys

(* C7: on an input error (caps: no argument, --inline without text, a missing
   file, unparsable JSON; config: a missing file) no rule is ever evaluated, no
   finding is ever recorded or printed, and the run ends with exit code 2. *)
C7_InputErrorsExit2 ==
    InputError =>
        /\ ~evaluated
        /\ errors = <<>> /\ warnings = <<>>
        /\ \A i \in 1..Len(out) : out[i].k \in {"usage", "fatal"}
        /\ pc \in {"start", "exited"}
        /\ pc = "exited" => (exitcode = 2 /\ raised = "" /\ Len(out) > 0)

\* C7's case: --inline with no JSON text has ended the run
C7_Witness ==
    /\ prog = "caps"
    /\ Len(argv) = 1
    /\ argv[1] = "--inline"
    /\ pc = "exited"
    /\ exitcode = 2

(* C8: a second run of validate-capabilities.py on the same input prints the
   same findings, message text included, as the first. *)
C8_SameFindingsOnRerun ==
    (prog = "caps" /\ run > 1 /\ pc = "exited") => out = prev.out

FIELD_ERRORS == {"Missing 'name' in frontmatter", "Missing 'description' in frontmatter"}
FIELD_WARNINGS ==
    {"Missing 'languages' in frontmatter", "Missing 'category' in frontmatter",
     "Unknown category"}

DelimiterError(d) ==
    \/ HasFinding(errors, d, "Missing opening --- in frontmatter")
    \/ HasFinding(errors, d, "Missing closing --- in frontmatter")

(* C9 as stated: once the manifest exists no rule is skipped: a field that no
   line of the manifest gives is reported (name, description as errors,
   languages, category as warnings), also when a delimiter error was. *)
C9_FieldRulesAlwaysReport ==
    (prog = "skills" /\ pc = "exited") =>
        \A d \in DOMAIN fsys :
            Scanned(d, fsys[d]) =>
                LET c == fsys[d].skill_md
                IN  /\ ~SearchKey(c, "name:")
                        => HasFinding(errors, d, "Missing 'name' in frontmatter")
                    /\ ~SearchKey(c, "description:")
                        => HasFinding(errors, d, "Missing 'description' in frontmatter")
                    /\ ~SearchKey(c, "languages:")
                        => HasFinding(warnings, d, "Missing 'languages' in frontmatter")
                    /\ ~SearchKey(c, "category:")
                        => HasFinding(warnings, d, "Missing 'category' in frontmatter")

(* C9 as amended: once the manifest exists, the line-budget rule, the two
   reference rules and the playbook-mention rule are evaluated whatever the
   frontmatter rules found; a delimiter error is reported iff the manifest
   does not start with "---\n" or has no closing delimiter, and then no
   required-field, recommended-field or category finding is reported for that
   manifest; when both delimiters are found, each of the four field rules
   reports iff its key starts no line of the frontmatter block. *)
C9_FieldRulesNeedDelimiters ==
    (prog = "skills" /\ pc = "exited") =>
        \A d \in DOMAIN fsys :
            Scanned(d, fsys[d]) =>
                LET c == fsys[d].skill_md
                    fm == Slice(c, 4, ClosingDelimiter(c))
                IN  /\ DelimiterError(d)
                        <=> (~StartsWith(c, <<"-", "-", "-", "\n">>) \/ ClosingDelimiter(c) = -1)
                    /\ DelimiterError(d) =>
                        /\ \A t \in FIELD_ERRORS : ~HasFinding(errors, d, t)
                        /\ \A t \in FIELD_WARNINGS : ~HasFinding(warnings, d, t)
                    /\ ~DelimiterError(d) =>
                        /\ HasFinding(errors, d, "Missing 'name' in frontmatter")
                              <=> ~SearchKey(fm, "name:")
                        /\ HasFinding(errors, d, "Missing 'description' in frontmatter")
                              <=> ~SearchKey(fm, "description:")
                        /\ HasFinding(warnings, d, "Missing 'languages' in frontmatter")
                              <=> ~SearchKey(fm, "languages:")
                        /\ HasFinding(warnings, d, "Missing 'category' in frontmatter")
                              <=> ~SearchKey(fm, "category:")
                    /\ HasFinding(errors, d, "SKILL.md is")
                          <=> Len(Split(c, "\n")) > MAX_SKILL_LINES
                    /\ HasFinding(warnings, d, "No reference/ directory")
                          <=> fsys[d].reference = "none"
                    /\ HasFinding(warnings, d, "No reference/playbook.md")
                          <=> fsys[d].reference = "dir"
                    /\ HasFinding(warnings, d, "SKILL.md doesn't reference playbook.md")
                          <=> (~Contains(c, <<"reference/">>) /\ ~Contains(c, <<"playbook.md">>))

\* C9's case: a scanned manifest with a delimiter error and no name: line; the
\* reference rule reported, the name rule did not
C9_Witness ==
    /\ prog = "skills"
    /\ pc = "exited"
    /\ \E d \in DOMAIN fsys :
          /\ Scanned(d, fsys[d])
          /\ DelimiterError(d)
          /\ ~SearchKey(fsys[d].skill_md, "name:")
          /\ ~HasFinding(errors, d, "Missing 'name' in frontmatter")
          /\ HasFinding(warnings, d, "No reference/ directory")

\* the number of lines of a file: its newline characters, plus one for a last
\* line that does not end with one
FileLines(c) ==
    Cardinality({i \in 1..Len(c) : c[i] = "\n"})
    + (IF Len(c) > 0 /\ c[Len(c)] # "\n" THEN 1 ELSE 0)

(* C10: the line-budget error is emitted, once, iff the manifest has more than
   500 lines, whether or not its last line ends with a newline. *)
C10_LineBudgetIffOver500 ==
    (prog = "skills" /\ pc = "exited") =>
        \A d \in DOMAIN fsys :
            Scanned(d, fsys[d]) =>
                Cardinality({i \in FindingsFor(errors, d) :
                                StartsWith(errors[i], d \o <<"SKILL.md is">>)})
                    = IF FileLines(fsys[d].skill_md) > MAX_SKILL_LINES THEN 1 ELSE 0

====
